---- MODULE Spec2Model ----
(***************************************************************************)
(* ItemCollection (src/src/item-collection.ts): an ordered collection with *)
(* an active pointer, lazily built property indexes and position-keyed     *)
(* tags.  Positions are zero-based as in the source; items[i + 1] is the   *)
(* item at position i.  Every method is an operator from a state record to *)
(* a result record [s, ret, pubs, threw]: the state it leaves, its return  *)
(* value, the snapshots it published (in order) and whether it threw.      *)
(***************************************************************************)
EXTENDS Integers, Sequences, FiniteSets, TLC

VARIABLES items, activeIndex, allowNextPrevCycle, cardinality,
          indexesByProperty, unique, idPropName, tagConfigs, tags,
          allowUnconfiguredTags, sortFn, searchable, last,
          subscribed, delivered

vars == <<items, activeIndex, allowNextPrevCycle, cardinality,
          indexesByProperty, unique, idPropName, tagConfigs, tags,
          allowUnconfiguredTags, sortFn, searchable, last,
          subscribed, delivered>>

-----------------------------------------------------------------------------
(* Bounds of the model.                                                    *)

\* longest item sequence the actions build (guards of the adding actions)
MaxSize == 3
\* number of distinct values of the "id" property
NumIds == 3
\* number of distinct values of the "k" property
NumKs == 2
\* lowest value the active pointer is allowed to be driven to
ActiveFloor == 2

-----------------------------------------------------------------------------
(* Values.                                                                 *)

\* Number.POSITIVE_INFINITY, the default cardinality
Infinity == 1000
\* JSON null: what JSON.stringify writes for Infinity
Null == -1
\* undefined (activeIndex unset, an absent argument)
Undefined == -1000

IdVals == 1..NumIds
KVals == 0..(NumKs - 1)
PropNames == {"id", "k"}
TagNames == {"foo"}

\* the items the callers pass: records with both properties set
Item == [id : IdVals, k : KVals]
\* an absent (falsy) item argument
NoItem == [id |-> Undefined, k |-> Undefined]

EmptyMap == [x \in {} |-> 0]
MapSet(m, key, v) == [x \in (DOMAIN m) \cup {key} |-> IF x = key THEN v ELSE m[x]]
MapDelete(m, key) == [x \in (DOMAIN m) \ {key} |-> m[x]]

\* the elements of a sequence
Range(q) == {q[i] : i \in 1..Len(q)}

\* a set of integers in ascending order
RECURSIVE Ascending(_)
Ascending(S) ==
    IF S = {} THEN <<>>
    ELSE LET m == CHOOSE x \in S : \A y \in S : x <= y
         IN <<m>> \o Ascending(S \ {m})

\* a sequence with f applied to every element
MapSeq(q, f(_)) == IF q = <<>> THEN <<>> ELSE [i \in 1..Len(q) |-> f(q[i])]

\* a JavaScript Set<number>: insertion ordered, no duplicates
SetAdd(q, x) == IF x \in Range(q) THEN q ELSE Append(q, x)
SetDelete(q, x) == SelectSeq(q, LAMBDA y : y # x)

\* the remainder operator % of JavaScript: the sign follows the dividend
JsRem(a, n) == IF a >= 0 THEN a % n ELSE 0 - ((0 - a) % n)

\* ToNumber of a cardinality that went through JSON: null compares as 0
ToNumber(c) == IF c = Null THEN 0 ELSE c

\* a value, named for the expression that uses it
With(v, F(_)) == F(v)

-----------------------------------------------------------------------------
(* The instance as one record, and the result of a call.                   *)

State ==
    [items |-> items, activeIndex |-> activeIndex,
     allowNextPrevCycle |-> allowNextPrevCycle, cardinality |-> cardinality,
     indexesByProperty |-> indexesByProperty, unique |-> unique,
     idPropName |-> idPropName, tagConfigs |-> tagConfigs, tags |-> tags,
     allowUnconfiguredTags |-> allowUnconfiguredTags, sortFn |-> sortFn,
     searchable |-> searchable]

\* the fields of a freshly declared instance
Fresh ==
    [items |-> <<>>, activeIndex |-> Undefined,
     allowNextPrevCycle |-> FALSE, cardinality |-> Infinity,
     indexesByProperty |-> EmptyMap, unique |-> TRUE,
     idPropName |-> "id", tagConfigs |-> EmptyMap, tags |-> EmptyMap,
     allowUnconfiguredTags |-> TRUE, sortFn |-> "noop",
     searchable |-> [enabled |-> FALSE, docIds |-> {}]]

Result(s, ret, pubs) == [s |-> s, ret |-> ret, pubs |-> pubs, threw |-> FALSE]
Thrown(s, pubs) == [s |-> s, ret |-> FALSE, pubs |-> pubs, threw |-> TRUE]

size(s) == Len(s.items)
isFull(s) == size(s) >= s.cardinality
\* #items[index]
Defined(s, index) == index >= 0 /\ index < size(s)
at(s, index) == s.items[index + 1]
active(s) == IF s.activeIndex # Undefined /\ Defined(s, s.activeIndex)
             THEN at(s, s.activeIndex) ELSE NoItem

\* #publishCurrent, when the publish flag is set
publishCurrent(s, publish) == IF publish THEN <<s>> ELSE <<>>

\* get config
getConfig(s) ==
    [cardinality |-> s.cardinality, tags |-> s.tagConfigs,
     allowNextPrevCycle |-> s.allowNextPrevCycle,
     allowUnconfiguredTags |-> s.allowUnconfiguredTags,
     unique |-> s.unique, idPropName |-> s.idPropName]

\* what a callback sees of the instance while it runs: the snapshot's items,
\* active index and config, and the positions getIndexesByTag gives for
\* each tag
current(s) ==
    [items |-> s.items, activeIndex |-> s.activeIndex, config |-> getConfig(s),
     tags |-> [t \in TagNames |->
                  IF t \in DOMAIN s.tags THEN Range(s.tags[t]) ELSE {}]]

-----------------------------------------------------------------------------
(* Property indexes.                                                       *)

\* the map value -> ascending positions of one property
IndexOf(its, property) ==
    [v \in {its[i][property] : i \in 1..Len(its)} |->
        Ascending({i - 1 : i \in {j \in 1..Len(its) : its[j][property] = v}})]

buildIndexForProperty(s, property) ==
    [s EXCEPT !.indexesByProperty = MapSet(@, property, IndexOf(s.items, property))]

\* a rebuild that leaves the indexes as they are
rebuildAllIndexesKept(s) == s

rebuildAllIndexes(s) ==
    [s EXCEPT !.indexesByProperty = MapSet(EmptyMap, s.idPropName,
                                           IndexOf(s.items, s.idPropName))]

\* one property of #updateItemIndexes
UpdateOne(ix, property, value, index) ==
    With(IF property \in DOMAIN ix THEN ix[property] ELSE EmptyMap, LAMBDA pm :
        MapSet(ix, property,
               MapSet(pm, value,
                      Append(IF value \in DOMAIN pm THEN pm[value] ELSE <<>>, index))))

updateItemIndexes(s, item, index) ==
    [s EXCEPT !.indexesByProperty =
        UpdateOne(UpdateOne(@, "id", item.id, index), "k", item.k, index)]

\* [s, ret]: the lookup builds the index of a property it has not seen
findAllIndexesBy(s, property, value) ==
    With(IF property \in DOMAIN s.indexesByProperty THEN s
         ELSE buildIndexForProperty(s, property), LAMBDA s1 :
        With(s1.indexesByProperty[property], LAMBDA propIndex :
            [s |-> s1,
             ret |-> IF value \in DOMAIN propIndex THEN propIndex[value] ELSE <<>>]))

findIndexBy(s, property, value) ==
    With(findAllIndexesBy(s, property, value), LAMBDA r :
        [s |-> r.s, ret |-> IF r.ret = <<>> THEN -1 ELSE r.ret[1]])

\* findBy(...) !== undefined

\* exists() that never finds the id
existsNever(s, id) == [s |-> s, ret |-> FALSE]

exists(s, id) ==
    With(findIndexBy(s, s.idPropName, id), LAMBDA r :
        [s |-> r.s, ret |-> Defined(r.s, r.ret)])

-----------------------------------------------------------------------------
(* Sorting.  A comparator is named by the key it compares: "noop" is the   *)
(* default (_a, _b) => 0, "byK" is (a, b) => a.k - b.k, "byId" is          *)
(* (a, b) => a.id - b.id; "none" is an absent comparator argument.         *)

Key(fn, item) == IF fn = "byK" THEN item.k ELSE IF fn = "byId" THEN item.id ELSE 0

\* x put before the elements of the sorted acc that compare equal to it
InsertBeforeEqual(acc, x, fn) ==
    With(Cardinality({i \in 1..Len(acc) : Key(fn, acc[i]) < Key(fn, x)}), LAMBDA p :
        SubSeq(acc, 1, p) \o <<x>> \o SubSeq(acc, p + 1, Len(acc)))

\* x put behind the elements of the sorted acc that do not compare greater
InsertSorted(acc, x, fn) ==
    With(Cardinality({i \in 1..Len(acc) : Key(fn, acc[i]) <= Key(fn, x)}), LAMBDA p :
        SubSeq(acc, 1, p) \o <<x>> \o SubSeq(acc, p + 1, Len(acc)))

\* Array.prototype.toSorted is stable
RECURSIVE toSorted(_, _)
toSorted(its, fn) ==
    IF its = <<>> THEN <<>>
    ELSE InsertSorted(toSorted(SubSeq(its, 1, Len(its) - 1), fn), its[Len(its)], fn)

Published(s, ret, publish) == Result(s, ret, publishCurrent(s, publish))

\* a sort that also unsets the active pointer
sortUnsetting(s, sortFnArg, publish) ==
    With(IF sortFnArg = "none" THEN s.sortFn ELSE sortFnArg, LAMBDA fn :
        Published(rebuildAllIndexes([s EXCEPT !.items = toSorted(s.items, fn),
                                              !.activeIndex = Undefined]),
                  TRUE, publish))

sort(s, sortFnArg, publish) ==
    With(IF sortFnArg = "none" THEN s.sortFn ELSE sortFnArg, LAMBDA fn :
        IF fn # "none"
        THEN Published(rebuildAllIndexes([s EXCEPT !.items = toSorted(s.items, fn)]),
                       TRUE, publish)
        ELSE Result(s, FALSE, <<>>))

-----------------------------------------------------------------------------
(* Configuration.  An option record names the options present in `has`.    *)

Options(has, vals) == [has |-> has, vals |-> vals]

configure(s, options, publish) ==
    IF "searchable" \in options.has THEN Thrown(s, <<>>)
    ELSE Published(
        [s EXCEPT
           !.cardinality =
               IF "cardinality" \in options.has THEN options.vals.cardinality ELSE @,
           !.allowNextPrevCycle =
               IF "allowNextPrevCycle" \in options.has
               THEN options.vals.allowNextPrevCycle ELSE @,
           !.unique = IF "unique" \in options.has THEN options.vals.unique ELSE @,
           !.idPropName =
               IF "idPropName" \in options.has THEN options.vals.idPropName ELSE @,
           !.allowUnconfiguredTags =
               IF "allowUnconfiguredTags" \in options.has
               THEN options.vals.allowUnconfiguredTags ELSE @,
           !.tagConfigs =
               IF "tags" \in options.has
               THEN [t \in (DOMAIN @) \cup (DOMAIN options.vals.tags) |->
                        IF t \in DOMAIN options.vals.tags
                        THEN options.vals.tags[t] ELSE @[t]]
               ELSE @,
           !.sortFn = IF "sortFn" \in options.has THEN options.vals.sortFn ELSE @],
        TRUE, publish)

\* the values of the options that a call leaves out
NoVals ==
    [cardinality |-> Infinity, allowNextPrevCycle |-> FALSE, unique |-> TRUE,
     idPropName |-> "id", allowUnconfiguredTags |-> TRUE, tags |-> EmptyMap,
     sortFn |-> "noop"]

-----------------------------------------------------------------------------
(* The active pointer.                                                     *)

setActive(s, item, publish) ==
    IF item = NoItem THEN Result(s, FALSE, <<>>)
    ELSE With(findIndexBy(s, s.idPropName, item[s.idPropName]), LAMBDA r :
            IF r.ret # -1
            THEN Published([r.s EXCEPT !.activeIndex = r.ret], TRUE, publish)
            ELSE Result(r.s, FALSE, <<>>))

\* the pointer is set to a; a notification goes out if it changed
Pointed(s, a, publish) ==
    With([s EXCEPT !.activeIndex = a], LAMBDA s1 :
        Result(s1, active(s1), publishCurrent(s1, s.activeIndex # a /\ publish)))

setActiveIndex(s, index, publish) ==
    Pointed(s, IF size(s) > 0 THEN JsRem(index, size(s)) ELSE Undefined, publish)

unsetActive(s, publish) ==
    With([s EXCEPT !.activeIndex = Undefined], LAMBDA s1 :
        Result(s1, TRUE, publishCurrent(s1, s.activeIndex # Undefined /\ publish)))

\* setActiveNext that goes round whatever allowNextPrevCycle says
setActiveNextRound(s) ==
    IF size(s) = 0 THEN Result(s, NoItem, <<>>)
    ELSE Pointed(s, IF s.activeIndex = Undefined THEN 0
                    ELSE IF s.activeIndex = size(s) - 1 THEN 0
                         ELSE s.activeIndex + 1,
                 TRUE)

setActiveNext(s) ==
    IF size(s) = 0 THEN Result(s, NoItem, <<>>)
    ELSE Pointed(s, IF s.activeIndex = Undefined THEN 0
                    ELSE IF s.activeIndex = size(s) - 1
                         THEN (IF s.allowNextPrevCycle THEN 0 ELSE s.activeIndex)
                         ELSE s.activeIndex + 1,
                 TRUE)

setActivePrevious(s) ==
    IF size(s) = 0 THEN Result(s, NoItem, <<>>)
    ELSE Pointed(s, IF s.activeIndex = Undefined THEN 0
                    ELSE IF s.activeIndex = 0
                         THEN (IF s.allowNextPrevCycle THEN size(s) - 1 ELSE s.activeIndex)
                         ELSE s.activeIndex - 1,
                 TRUE)

setActiveFirst(s) ==
    IF size(s) = 0 THEN Result(s, NoItem, <<>>) ELSE Pointed(s, 0, TRUE)

setActiveLast(s) ==
    IF size(s) = 0 THEN Result(s, NoItem, <<>>) ELSE Pointed(s, size(s) - 1, TRUE)

-----------------------------------------------------------------------------
(* Adding and patching.                                                    *)

\* the default normalizeFn returns an object argument as it is
normalizeFn(s, item) == item

\* #searchable.__index.removeDocId(docId), when search is configured: the
\* adapter is the set of the identity values registered in it
removeDocId(s, docId) ==
    IF s.searchable.enabled
    THEN [s EXCEPT !.searchable.docIds = @ \ {docId}] ELSE s

recreateSearchableFor(s, item) ==
    IF s.searchable.enabled
    THEN [s EXCEPT !.searchable.docIds = (@ \ {item[s.idPropName]})
                                            \cup {item[s.idPropName]}]
    ELSE s

\* unshift(item): the new item goes in front of the others
pushItemFront(s, it, autoSort) ==
    sort([s EXCEPT !.items = <<it>> \o @], "none", FALSE).s

\* the push of add, then the sort or the incremental index update
pushItem(s, it, autoSort) ==
    With([s EXCEPT !.items = Append(@, it)], LAMBDA s1 :
        IF autoSort THEN sort(s1, "none", FALSE).s
        ELSE updateItemIndexes(s1, it, Len(s1.items) - 1))

add(s, item, autoSort, publish) ==
    IF item = NoItem THEN Result(s, FALSE, <<>>)
    ELSE IF size(s) >= s.cardinality THEN Result(s, FALSE, <<>>)
    ELSE With(normalizeFn(s, item), LAMBDA it :
            With(IF s.unique THEN exists(s, it[s.idPropName])
                 ELSE [s |-> s, ret |-> FALSE], LAMBDA e :
                IF e.ret THEN Result(e.s, FALSE, <<>>)
                ELSE Published(recreateSearchableFor(pushItem(e.s, it, autoSort), it),
                               TRUE, publish)))

\* the loop of addMany: [s, added]
RECURSIVE addEach(_, _, _)
addEach(s, list, added) ==
    IF list = <<>> THEN [s |-> s, added |-> added]
    ELSE With(add(s, Head(list), FALSE, FALSE), LAMBDA r :
            addEach(r.s, Tail(list), IF r.ret THEN added + 1 ELSE added))

addMany(s, list, publish) ==
    With(addEach(s, list, 0), LAMBDA l :
        IF l.added > 0
        THEN With(sort(l.s, "none", TRUE), LAMBDA sr :
                Result(sr.s, l.added, sr.pubs \o publishCurrent(sr.s, publish)))
        ELSE Result(l.s, 0, <<>>))

\* the replacement at the first index of the list only
replaceFirst(its, indexes, item) ==
    IF indexes = <<>> THEN its ELSE [its EXCEPT ![Head(indexes) + 1] = item]

\* this.#items[index] = item for every index of the list
RECURSIVE replaceAt(_, _, _)
replaceAt(its, indexes, item) ==
    IF indexes = <<>> THEN its
    ELSE replaceAt([its EXCEPT ![Head(indexes) + 1] = item], Tail(indexes), item)

patch(s, item, publish) ==
    IF item = NoItem THEN Result(s, FALSE, <<>>)
    ELSE With(findAllIndexesBy(s, s.idPropName, item[s.idPropName]), LAMBDA r :
            Published(recreateSearchableFor(
                          [r.s EXCEPT !.items = replaceAt(@, r.ret, item)], item),
                      Len(r.ret) > 0, Len(r.ret) > 0 /\ publish))

RECURSIVE patchEach(_, _, _, _)
patchEach(s, list, patched, pubs) ==
    IF list = <<>> THEN [s |-> s, patched |-> patched, pubs |-> pubs]
    ELSE With(patch(s, Head(list), TRUE), LAMBDA r :
            patchEach(r.s, Tail(list), IF r.ret THEN patched + 1 ELSE patched,
                      pubs \o r.pubs))

patchMany(s, list, publish) ==
    With(patchEach(s, list, 0, <<>>), LAMBDA l :
        Result(l.s, l.patched,
               l.pubs \o publishCurrent(l.s, l.patched > 0 /\ publish)))

-----------------------------------------------------------------------------
(* Tag positions on removal and on move.                                   *)

\* the removal of removedIndex from the set with no shift of the others
RemapOnRemoveUnshifted(tagSet, removedIndex) == SetDelete(tagSet, removedIndex)

\* the new set of one tag after the removal of removedIndex
RemapOnRemove(tagSet, removedIndex) ==
    MapSeq(SetDelete(tagSet, removedIndex),
           LAMBDA idx : IF idx > removedIndex THEN idx - 1 ELSE idx)

\* a removal that leaves every tag's positions as they were
updateTagsOnRemoveSkipped(s, removedIndex) == s

updateTagsOnRemove(s, removedIndex) ==
    [s EXCEPT !.tags = [t \in DOMAIN @ |-> RemapOnRemove(@[t], removedIndex)]]

\* a shift that leaves out the position at the target of a forward move
ShiftOnMoveBeforeTarget(idx, fromIndex, toIndex) ==
    IF fromIndex < toIndex
    THEN (IF idx > fromIndex /\ idx < toIndex THEN idx - 1 ELSE idx)
    ELSE (IF idx >= toIndex /\ idx < fromIndex THEN idx + 1 ELSE idx)

\* the positions other than fromIndex after the move of fromIndex to toIndex
ShiftOnMove(idx, fromIndex, toIndex) ==
    IF fromIndex < toIndex
    THEN (IF idx > fromIndex /\ idx <= toIndex THEN idx - 1 ELSE idx)
    ELSE (IF idx >= toIndex /\ idx < fromIndex THEN idx + 1 ELSE idx)

\* the new set of one tag after the move of fromIndex to toIndex
RemapOnMove(tagSet, fromIndex, toIndex) ==
    With(MapSeq(SetDelete(tagSet, fromIndex),
                LAMBDA idx : ShiftOnMove(idx, fromIndex, toIndex)), LAMBDA shifted :
        IF fromIndex \in Range(tagSet) THEN SetAdd(shifted, toIndex) ELSE shifted)

updateTagsOnMove(s, fromIndex, toIndex) ==
    [s EXCEPT !.tags = [t \in DOMAIN @ |-> RemapOnMove(@[t], fromIndex, toIndex)]]

-----------------------------------------------------------------------------
(* Removing, moving, clearing.                                             *)

\* Array.prototype.splice(index, 1) and splice(index, 0, item)
spliceOut(its, index) == SubSeq(its, 1, index) \o SubSeq(its, index + 2, Len(its))
\* unshift(item): the insertion at the front whatever the index
spliceInFront(its, index, item) == <<item>> \o its
spliceIn(its, index, item) ==
    SubSeq(its, 1, index) \o <<item>> \o SubSeq(its, index + 1, Len(its))

\* a removal that leaves the indexes as they were
removeItemFromIndexesSkipped(s) == s
removeItemFromIndexes(s) == rebuildAllIndexes(s)

\* the pointer after a removal that never wraps to the front
ActiveOnRemoveUnwrapped(a, index, n) ==
    IF a = Undefined THEN a
    ELSE IF index = a THEN (IF n > 0 THEN index ELSE Undefined)
    ELSE IF index < a THEN a - 1
    ELSE a

\* the active pointer after the removal of index; n is the new size
ActiveOnRemove(a, index, n) ==
    IF a = Undefined THEN a
    ELSE IF index = a THEN (IF n > 0 THEN JsRem(index, n) ELSE Undefined)
    ELSE IF index < a THEN a - 1
    ELSE a

removeAt(s, index, publish) ==
    IF index < 0 \/ index >= size(s) THEN Result(s, FALSE, <<>>)
    ELSE Published(
            removeDocId(
                updateTagsOnRemove(
                    [removeItemFromIndexes([s EXCEPT !.items = spliceOut(@, index)])
                        EXCEPT !.activeIndex = ActiveOnRemove(@, index, size(s) - 1)],
                    index),
                at(s, index)[s.idPropName]),
            TRUE, publish)

remove(s, item, publish) ==
    IF item = NoItem THEN Result(s, FALSE, <<>>)
    ELSE With(findIndexBy(s, s.idPropName, item[s.idPropName]), LAMBDA r :
            IF r.ret = -1 THEN Result(r.s, FALSE, <<>>)
            ELSE removeAt(r.s, r.ret, publish))

\* the loop of removeAllBy: [s, removed, pubs]; the model stops it after fuel
\* rounds and reports whether it had ended by itself
RECURSIVE removeLoop(_, _, _, _, _, _)
removeLoop(s, property, value, removed, pubs, fuel) ==
    With(findIndexBy(s, property, value), LAMBDA f :
        IF f.ret >= 0 /\ fuel > 0
        THEN With(removeAt(f.s, f.ret, TRUE), LAMBDA r :
                removeLoop(r.s, property, value, removed + 1, pubs \o r.pubs, fuel - 1))
        ELSE [s |-> f.s, removed |-> removed, pubs |-> pubs, ended |-> f.ret < 0])

removeAllBy(s, property, value, publish) ==
    With(removeLoop(s, property, value, 0, <<>>, size(s) + 1), LAMBDA l :
        Result(l.s, l.removed,
               l.pubs \o publishCurrent(l.s, l.removed > 0 /\ publish)))

toggleAdd(s, item, publish) ==
    IF item = NoItem THEN Result(s, FALSE, <<>>)
    ELSE With(exists(s, item[s.idPropName]), LAMBDA e :
            With(IF e.ret THEN removeAllBy(e.s, s.idPropName, item[s.idPropName], TRUE)
                 ELSE add(e.s, item, TRUE, publish), LAMBDA r :
                Result(r.s, ~e.ret, r.pubs)))

\* a move that leaves the pointer on the slot behind the target
ActiveOnMoveNoShiftAtTarget(a, fromIndex, toIndex) ==
    IF a = Undefined THEN a
    ELSE IF a = fromIndex THEN toIndex
    ELSE IF fromIndex < a /\ a < toIndex THEN a - 1
    ELSE IF toIndex <= a /\ a < fromIndex THEN a + 1
    ELSE a

\* the active pointer after the move of fromIndex to toIndex
ActiveOnMove(a, fromIndex, toIndex) ==
    IF a = Undefined THEN a
    ELSE IF a = fromIndex THEN toIndex
    ELSE IF fromIndex < a /\ a <= toIndex THEN a - 1
    ELSE IF toIndex <= a /\ a < fromIndex THEN a + 1
    ELSE a

move(s, fromIndex, toIndex, publish) ==
    IF \/ fromIndex < 0 \/ fromIndex >= size(s)
       \/ toIndex < 0 \/ toIndex >= size(s)
       \/ fromIndex = toIndex
    THEN Result(s, FALSE, <<>>)
    ELSE Published(
            updateTagsOnMove(
                [rebuildAllIndexes(
                    [s EXCEPT !.items = spliceIn(spliceOut(@, fromIndex), toIndex,
                                                 at(s, fromIndex))])
                    EXCEPT !.activeIndex = ActiveOnMove(@, fromIndex, toIndex)],
                fromIndex, toIndex),
            TRUE, publish)

\* a clear that leaves the tags on their positions
clearKeepingTags(s, publish) ==
    Published([s EXCEPT !.items = <<>>, !.activeIndex = Undefined,
                        !.indexesByProperty = EmptyMap],
              TRUE, publish)

clear(s, publish) ==
    Published([s EXCEPT !.items = <<>>, !.activeIndex = Undefined,
                        !.indexesByProperty = EmptyMap,
                        !.tags = [t \in DOMAIN @ |-> <<>>]],
              TRUE, publish)

-----------------------------------------------------------------------------
(* Tags.                                                                   *)

\* #assertAndInitializeTag: [s, threw]
assertAndInitializeTag(s, tagName) ==
    IF tagName \in DOMAIN s.tags THEN [s |-> s, threw |-> FALSE]
    ELSE IF ~s.allowUnconfiguredTags THEN [s |-> s, threw |-> TRUE]
    ELSE [s |-> [s EXCEPT !.tags = MapSet(@, tagName, <<>>),
                          !.tagConfigs = IF tagName \in DOMAIN @ THEN @
                                         ELSE MapSet(@, tagName, Infinity)],
          threw |-> FALSE]

\* applyTagByIndex with no check of the cardinality
applyUnchecked(s, index, tagName, publish) ==
    Published([s EXCEPT !.tags[tagName] = SetAdd(@, index)], TRUE, publish)

\* applyTagByIndex once the tag is initialized
applyChecked(s, index, tagName, publish) ==
    IF Len(s.tags[tagName]) >= ToNumber(s.tagConfigs[tagName])
       /\ index \notin Range(s.tags[tagName])
    THEN Result(s, FALSE, <<>>)
    ELSE Published([s EXCEPT !.tags[tagName] = SetAdd(@, index)], TRUE, publish)

applyTagByIndex(s, index, tagName, publish) ==
    IF index < 0 \/ index >= size(s) THEN Result(s, FALSE, <<>>)
    ELSE With(assertAndInitializeTag(s, tagName), LAMBDA a :
            IF a.threw \/ tagName \notin DOMAIN a.s.tagConfigs THEN Thrown(a.s, <<>>)
            ELSE applyChecked(a.s, index, tagName, publish))

applyTag(s, item, tagName, publish) ==
    IF item = NoItem THEN Result(s, FALSE, <<>>)
    ELSE With(findIndexBy(s, s.idPropName, item[s.idPropName]), LAMBDA r :
            IF r.ret = -1 THEN Result(r.s, FALSE, <<>>)
            ELSE applyTagByIndex(r.s, r.ret, tagName, publish))

\* the loop of applyTagByIndexes: the result of the last applyTagByIndex
RECURSIVE applyEach(_, _, _, _)
applyEach(s, indexes, tagName, res) ==
    IF indexes = <<>> THEN Result(s, res, <<>>)
    ELSE With(applyTagByIndex(s, Head(indexes), tagName, FALSE), LAMBDA r :
            IF r.threw \/ ~r.ret THEN r
            ELSE applyEach(r.s, Tail(indexes), tagName, r.ret))

applyTagByIndexes(s, indexes, tagName, publish) ==
    With(applyEach(s, indexes, tagName, FALSE), LAMBDA l :
        IF l.threw THEN l ELSE Published(l.s, l.ret, publish))

removeTagByIndex(s, index, tagName, publish) ==
    IF index < 0 \/ index >= size(s) THEN Result(s, FALSE, <<>>)
    ELSE IF tagName \notin DOMAIN s.tags THEN Result(s, FALSE, <<>>)
    ELSE IF index \notin Range(s.tags[tagName]) THEN Result(s, FALSE, <<>>)
    ELSE Published([s EXCEPT !.tags[tagName] = SetDelete(@, index)], TRUE, publish)

removeTag(s, item, tagName, publish) ==
    IF item = NoItem THEN Result(s, FALSE, <<>>)
    ELSE With(findIndexBy(s, s.idPropName, item[s.idPropName]), LAMBDA r :
            IF r.ret = -1 THEN Result(r.s, FALSE, <<>>)
            ELSE removeTagByIndex(r.s, r.ret, tagName, publish))

\* the loop of removeTagByIndexes: [s, successCounter]
RECURSIVE removeEach(_, _, _, _)
removeEach(s, indexes, tagName, successCounter) ==
    IF indexes = <<>> THEN [s |-> s, successCounter |-> successCounter]
    ELSE With(removeTagByIndex(s, Head(indexes), tagName, FALSE), LAMBDA r :
            removeEach(r.s, Tail(indexes), tagName,
                       IF r.ret THEN successCounter + 1 ELSE successCounter))

removeTagByIndexes(s, indexes, tagName, publish) ==
    With(removeEach(s, indexes, tagName, 0), LAMBDA l :
        Published(l.s, l.successCounter > 0, publish))

hasTagByIndex(s, index, tagName) ==
    IF index < 0 \/ index >= size(s) THEN FALSE
    ELSE IF tagName \notin DOMAIN s.tags THEN FALSE
    ELSE index \in Range(s.tags[tagName])

\* [s, ret]
hasTag(s, item, tagName) ==
    IF item = NoItem THEN [s |-> s, ret |-> FALSE]
    ELSE With(findIndexBy(s, s.idPropName, item[s.idPropName]), LAMBDA r :
            [s |-> r.s, ret |-> r.ret # -1 /\ hasTagByIndex(r.s, r.ret, tagName)])

getIndexesByTag(s, tagName) ==
    IF tagName \notin DOMAIN s.tags THEN <<>> ELSE s.tags[tagName]

getByTag(s, tagName) ==
    MapSeq(getIndexesByTag(s, tagName), LAMBDA index : at(s, index))

toggleTag(s, item, tagName, publish) ==
    IF item = NoItem THEN Result(s, FALSE, <<>>)
    ELSE With(hasTag(s, item, tagName), LAMBDA h :
            With(IF h.ret THEN removeTag(h.s, item, tagName, TRUE)
                 ELSE applyTag(h.s, item, tagName, TRUE), LAMBDA r :
                IF r.threw THEN r
                ELSE Result(r.s, ~h.ret, r.pubs \o publishCurrent(r.s, publish))))

\* Array.prototype.at: a negative index counts from the end
arrayAt(s, index) ==
    With(IF index < 0 THEN index + size(s) ELSE index, LAMBDA i :
        IF Defined(s, i) THEN at(s, i) ELSE NoItem)

\* the results undefined, false and true are the strings of these names; a
\* call that throws returns nothing, written "undefined" beside threw
toggleTagByIndex(s, index, tagName, publish) ==
    IF arrayAt(s, index) = NoItem THEN Result(s, "undefined", <<>>)
    ELSE With(hasTagByIndex(s, index, tagName), LAMBDA h :
            With(IF h THEN removeTagByIndex(s, index, tagName, publish)
                 ELSE applyTagByIndex(s, index, tagName, publish), LAMBDA r :
                IF r.threw THEN [r EXCEPT !.ret = "undefined"]
                ELSE Result(r.s, IF h THEN "false" ELSE "true", r.pubs)))

deleteTag(s, tagName, publish) ==
    IF tagName \notin DOMAIN s.tags THEN Result(s, FALSE, <<>>)
    ELSE Published([s EXCEPT !.tags = MapDelete(@, tagName),
                             !.tagConfigs = MapDelete(@, tagName)],
                   TRUE, publish)

\* the set cut down to the limit members that were added first
DropLatest(tagSet, limit) == SubSeq(tagSet, 1, limit)

\* the set without its highest positions, down to limit members
DropHighest(tagSet, limit) ==
    With(Ascending(Range(tagSet)), LAMBDA indexes :
        SelectSeq(tagSet, LAMBDA x : x \in {indexes[i] : i \in 1..limit}))

enforceTagCardinality(s, tagName) ==
    IF tagName \notin DOMAIN s.tags \/ tagName \notin DOMAIN s.tagConfigs THEN s
    ELSE IF Len(s.tags[tagName]) <= ToNumber(s.tagConfigs[tagName]) THEN s
    ELSE [s EXCEPT !.tags[tagName] = DropHighest(@, ToNumber(s.tagConfigs[tagName]))]

\* configureTag once the configuration is written
configureChecked(s, tagName, config, publish) ==
    IF tagName \notin DOMAIN s.tags THEN Thrown(s, <<>>)
    ELSE IF config < Len(s.tags[tagName])
    THEN Published(enforceTagCardinality(s, tagName), TRUE, publish)
    ELSE Result(s, TRUE, <<>>)

configureTag(s, tagName, config, publish) ==
    configureChecked(
        IF tagName \notin DOMAIN s.tagConfigs
        THEN [s EXCEPT !.tagConfigs = MapSet(@, tagName, config),
                       !.tags = MapSet(@, tagName, <<>>)]
        ELSE [s EXCEPT !.tagConfigs[tagName] = config],
        tagName, config, publish)

-----------------------------------------------------------------------------
(* Dump and restore.                                                       *)

\* JSON.stringify then JSON.parse of a number: Infinity becomes null
jsonNumber(n) == IF n = Infinity THEN Null ELSE n

toJSON(s) ==
    [items |-> s.items, activeIndex |-> s.activeIndex,
     cardinality |-> s.cardinality, unique |-> s.unique,
     idPropName |-> s.idPropName, tags |-> s.tags, tagConfigs |-> s.tagConfigs]

\* the value JSON.parse reads back from dump()
dump(s) ==
    [toJSON(s) EXCEPT !.cardinality = jsonNumber(@),
                      !.tagConfigs = [t \in DOMAIN @ |-> jsonNumber(@[t])]]

\* the valid positions of a dumped tag, as a Set
RECURSIVE validIndexes(_, _)
validIndexes(indexes, n) ==
    IF indexes = <<>> THEN <<>>
    ELSE With(indexes[Len(indexes)], LAMBDA index :
            IF index >= 0 /\ index < n
            THEN SetAdd(validIndexes(SubSeq(indexes, 1, Len(indexes) - 1), n), index)
            ELSE validIndexes(SubSeq(indexes, 1, Len(indexes) - 1), n))

\* the configuration scalars of restore, on the cleared instance
restoreConfig(s, d) ==
    [clear(s, FALSE).s EXCEPT
        !.cardinality = IF d.cardinality = Null THEN Infinity ELSE d.cardinality,
        !.unique = d.unique,
        !.idPropName = d.idPropName]

\* the active index, tag configurations and tag sets of restore
restoreRest(s, d) ==
    [s EXCEPT
       !.activeIndex = IF d.activeIndex # Undefined /\ d.activeIndex >= 0
                          /\ d.activeIndex < size(s)
                       THEN d.activeIndex ELSE @,
       !.tagConfigs = [t \in (DOMAIN @) \cup (DOMAIN d.tagConfigs) |->
                          IF t \in DOMAIN d.tagConfigs THEN d.tagConfigs[t] ELSE @[t]],
       !.tags = [t \in (DOMAIN @) \cup (DOMAIN d.tagConfigs) \cup (DOMAIN d.tags) |->
                    IF t \in DOMAIN d.tags THEN validIndexes(d.tags[t], size(s))
                    ELSE IF t \in DOMAIN @ THEN @[t] ELSE <<>>]]

restore(s, d) ==
    With(addMany(restoreConfig(s, d), d.items, FALSE), LAMBDA am :
        With(restoreRest(rebuildAllIndexes(am.s), d), LAMBDA s1 :
            Result(s1, TRUE, am.pubs \o publishCurrent(s1, TRUE))))

\* what restore() and fromJSON() can be handed: nothing (undefined, null or
\* the empty string), a string that is not JSON, a JSON scalar, the JSON
\* text null, or a dump
InputKinds == {"absent", "malformed", "scalar", "null"}
Input(kind, d) == [kind |-> kind, d |-> d]

\* restore(dump) from its first line: the checks before the try block, then
\* the try block, which throws on a parsed null and is caught
restoreInput(s, input) ==
    IF input.kind = "absent" THEN Result(s, FALSE, <<>>)
    ELSE IF input.kind = "malformed" THEN Thrown(s, <<>>)
    ELSE IF input.kind = "scalar" THEN Result(s, FALSE, <<>>)
    ELSE IF input.kind = "null"
    THEN With(clear(clear(s, FALSE).s, TRUE), LAMBDA c : Result(c.s, FALSE, c.pubs))
    ELSE restore(s, input.d)

\* ItemCollection.fromJSON(json): the collection it returns
fromJSON(input) ==
    IF input.kind = "dump" THEN Result(restore(Fresh, input.d).s, TRUE, <<>>)
    ELSE Result(Fresh, TRUE, <<>>)

-----------------------------------------------------------------------------
(* The calls.  Each action is one public call on the instance; `last`      *)
(* records the call, its return value, the number of notifications it      *)
(* published and whether it threw.                                         *)

Commit(op, r) ==
    /\ items' = r.s.items
    /\ activeIndex' = r.s.activeIndex
    /\ allowNextPrevCycle' = r.s.allowNextPrevCycle
    /\ cardinality' = r.s.cardinality
    /\ indexesByProperty' = r.s.indexesByProperty
    /\ unique' = r.s.unique
    /\ idPropName' = r.s.idPropName
    /\ tagConfigs' = r.s.tagConfigs
    /\ tags' = r.s.tags
    /\ allowUnconfiguredTags' = r.s.allowUnconfiguredTags
    /\ sortFn' = r.s.sortFn
    /\ searchable' = r.s.searchable
    /\ last' = [op |-> op, ret |-> r.ret, pubs |-> Len(r.pubs), threw |-> r.threw]
    /\ subscribed' = subscribed
    /\ delivered' = IF subscribed = "on" THEN MapSeq(r.pubs, current) ELSE <<>>

\* a call that adds is taken when the sequence it leaves is within MaxSize
CommitBounded(op, r) == Len(r.s.items) <= MaxSize /\ Commit(op, r)

\* new ItemCollection(initial, options)
constructor(initial, options) ==
    addMany(configure([Fresh EXCEPT !.searchable.enabled = "searchable" \in options.has],
                      Options(options.has \ {"searchable"}, options.vals), FALSE).s,
            initial, FALSE)

Constructed(r) ==
    /\ items = r.s.items
    /\ activeIndex = r.s.activeIndex
    /\ allowNextPrevCycle = r.s.allowNextPrevCycle
    /\ cardinality = r.s.cardinality
    /\ indexesByProperty = r.s.indexesByProperty
    /\ unique = r.s.unique
    /\ idPropName = r.s.idPropName
    /\ tagConfigs = r.s.tagConfigs
    /\ tags = r.s.tags
    /\ allowUnconfiguredTags = r.s.allowUnconfiguredTags
    /\ sortFn = r.s.sortFn
    /\ searchable = r.s.searchable
    /\ last = [op |-> "constructor", ret |-> TRUE, pubs |-> 0, threw |-> FALSE]
    /\ subscribed = "never"
    /\ delivered = <<>>

Construct(initial, options) == Constructed(constructor(initial, options))

Configure(options) == Commit("configure", configure(State, options, TRUE))

Add(item, autoSort) == CommitBounded("add", add(State, item, autoSort, TRUE))
AddMany(list) == CommitBounded("addMany", addMany(State, list, TRUE))
ToggleAdd(item) == CommitBounded("toggleAdd", toggleAdd(State, item, TRUE))
Patch(item) == Commit("patch", patch(State, item, TRUE))
PatchMany(list) == Commit("patchMany", patchMany(State, list, TRUE))
Remove(item) == Commit("remove", remove(State, item, TRUE))
RemoveAt(index) == Commit("removeAt", removeAt(State, index, TRUE))
RemoveAllBy(property, value) ==
    Commit("removeAllBy", removeAllBy(State, property, value, TRUE))
Move(fromIndex, toIndex) == Commit("move", move(State, fromIndex, toIndex, TRUE))
Sort(sortFnArg) == Commit("sort", sort(State, sortFnArg, TRUE))
Clear == Commit("clear", clear(State, TRUE))

\* a lookup: it returns positions and may build an index
Lookup(r) == Result(r.s, r.ret, <<>>)
FindAllIndexesBy(property, value) ==
    Commit("findAllIndexesBy", Lookup(findAllIndexesBy(State, property, value)))

SetActive(item) == Commit("setActive", setActive(State, item, TRUE))
SetActiveIndex(index) == Commit("setActiveIndex", setActiveIndex(State, index, TRUE))
UnsetActive == Commit("unsetActive", unsetActive(State, TRUE))
SetActiveNext == Commit("setActiveNext", setActiveNext(State))
\* the model does not drive the pointer below -ActiveFloor
SetActivePrevious ==
    /\ activeIndex = Undefined \/ activeIndex > 0 - ActiveFloor
    /\ Commit("setActivePrevious", setActivePrevious(State))
SetActiveFirst == Commit("setActiveFirst", setActiveFirst(State))
SetActiveLast == Commit("setActiveLast", setActiveLast(State))

ApplyTag(item, tagName) == Commit("applyTag", applyTag(State, item, tagName, TRUE))
ApplyTagByIndex(index, tagName) ==
    Commit("applyTagByIndex", applyTagByIndex(State, index, tagName, TRUE))
ApplyTagByIndexes(indexes, tagName) ==
    Commit("applyTagByIndexes", applyTagByIndexes(State, indexes, tagName, TRUE))
RemoveTag(item, tagName) == Commit("removeTag", removeTag(State, item, tagName, TRUE))
RemoveTagByIndex(index, tagName) ==
    Commit("removeTagByIndex", removeTagByIndex(State, index, tagName, TRUE))
RemoveTagByIndexes(indexes, tagName) ==
    Commit("removeTagByIndexes", removeTagByIndexes(State, indexes, tagName, TRUE))
ToggleTag(item, tagName) == Commit("toggleTag", toggleTag(State, item, tagName, TRUE))
ToggleTagByIndex(index, tagName) ==
    Commit("toggleTagByIndex", toggleTagByIndex(State, index, tagName, TRUE))
DeleteTag(tagName) == Commit("deleteTag", deleteTag(State, tagName, TRUE))
ConfigureTag(tagName, config) ==
    Commit("configureTag", configureTag(State, tagName, config, TRUE))

\* restore(dump()) on the same instance
RestoreDump == Commit("restore", restore(State, dump(State)))

\* restore(input), and fromJSON(input) with the instance it returns taken on
Restore(input) == Commit("restore", restoreInput(State, input))
FromJSON(input) == Commit("fromJSON", fromJSON(input))

\* the fields of the instance
fields == <<items, activeIndex, allowNextPrevCycle, cardinality,
            indexesByProperty, unique, idPropName, tagConfigs, tags,
            allowUnconfiguredTags, sortFn, searchable>>

\* subscribe(cb): cb is registered and called at once with the snapshot
Subscribe ==
    /\ subscribed = "never"
    /\ subscribed' = "on"
    /\ delivered' = <<current(State)>>
    /\ last' = [op |-> "subscribe", ret |-> TRUE, pubs |-> 0, threw |-> FALSE]
    /\ UNCHANGED fields

\* the function subscribe returned, called once
Unsubscribe ==
    /\ subscribed = "on"
    /\ subscribed' = "off"
    /\ delivered' = <<>>
    /\ last' = [op |-> "unsubscribe", ret |-> TRUE, pubs |-> 0, threw |-> FALSE]
    /\ UNCHANGED fields

-----------------------------------------------------------------------------
(* The arguments the calls are tried with.                                 *)

\* positions, with one out of range on either side
Positions == (0 - 1)..MaxSize
\* the items whose k is 0
PlainItems == {it \in Item : it.k = 0}
\* the cardinalities given to a tag
TagLimits == {1, 2, Infinity}
\* lists of at most two positions
IndexLists == {<<i>> : i \in Positions} \cup {<<i, j>> : i \in Positions, j \in Positions}
\* configure({tags: {[t]: {cardinality: k}}})
TagOptions(t, k) == Options({"tags"}, [NoVals EXCEPT !.tags = [x \in {t} |-> k]])

-----------------------------------------------------------------------------
(* Tags under structural mutation.                                         *)

InitTags ==
    \/ Construct(<<>>, Options({}, NoVals))
    \/ \E t \in TagNames : Construct(<<>>, TagOptions(t, 1))

NextTags ==
    \/ \E item \in PlainItems : Add(item, TRUE)
    \/ \E item \in PlainItems \cup {NoItem}, t \in TagNames : ApplyTag(item, t)
    \/ \E i \in Positions, t \in TagNames : ApplyTagByIndex(i, t)
    \/ \E l \in IndexLists, t \in TagNames : ApplyTagByIndexes(l, t)
    \/ \E t \in TagNames, k \in TagLimits : ConfigureTag(t, k)
    \/ \E t \in TagNames, k \in TagLimits : Configure(TagOptions(t, k))
    \/ \E i \in Positions : RemoveAt(i)
    \/ \E f \in Positions, t \in Positions : Move(f, t)
    \/ Clear
    \/ RestoreDump

SpecTags == InitTags /\ [][NextTags]_vars

-----------------------------------------------------------------------------
(* The active pointer under navigation and structural mutation.            *)

\* the integers given to setActiveIndex: negative, in range, beyond the end
IndexArgs == (0 - MaxSize)..(2 * MaxSize)

InitActive ==
    \E cycle \in BOOLEAN :
        Construct(<<>>, Options({"allowNextPrevCycle"},
                                [NoVals EXCEPT !.allowNextPrevCycle = cycle]))

NextActive ==
    \/ \E item \in PlainItems : Add(item, TRUE)
    \/ \E i \in Positions : RemoveAt(i)
    \/ \E v \in IdVals : RemoveAllBy("id", v)
    \/ \E f \in Positions, t \in Positions : Move(f, t)
    \/ Clear
    \/ RestoreDump
    \/ \E item \in PlainItems \cup {NoItem} : SetActive(item)
    \/ UnsetActive
    \/ \E n \in IndexArgs : SetActiveIndex(n)
    \/ SetActiveNext
    \/ SetActivePrevious
    \/ SetActiveFirst
    \/ SetActiveLast

SpecActive == InitActive /\ [][NextActive]_vars

-----------------------------------------------------------------------------
(* Uniqueness and the cardinality limit under adding and configure.        *)

\* lists of at most two items
ItemLists == {<<>>} \cup {<<a>> : a \in Item} \cup {<<a, b>> : a \in Item, b \in Item}
\* the collection cardinalities given to the constructor and to configure
Limits == {2, Infinity}
\* configure({unique: u}) and configure({cardinality: c})
UniqueOption(u) == Options({"unique"}, [NoVals EXCEPT !.unique = u])
LimitOption(c) == Options({"cardinality"}, [NoVals EXCEPT !.cardinality = c])

InitUnique ==
    \E u \in BOOLEAN, c \in Limits, initial \in ItemLists :
        Construct(initial, Options({"unique", "cardinality"},
                                   [NoVals EXCEPT !.unique = u, !.cardinality = c]))

NextUnique ==
    \/ \E item \in Item \cup {NoItem} : Add(item, TRUE)
    \/ \E list \in ItemLists : AddMany(list)
    \/ \E item \in Item : ToggleAdd(item)
    \/ \E item \in Item : Patch(item)
    \/ \E f \in Positions, t \in Positions : Move(f, t)
    \/ \E i \in Positions : RemoveAt(i)
    \/ RestoreDump
    \/ \E u \in BOOLEAN : Configure(UniqueOption(u))
    \/ \E c \in Limits : Configure(LimitOption(c))

SpecUnique == InitUnique /\ [][NextUnique]_vars

-----------------------------------------------------------------------------
(* The property indexes under the mutations of the sequence.               *)

\* the values an attribute can hold
AttrVals == IdVals \cup KVals
\* the comparators given to sort(); "none" is sort() with no argument
SortArgs == {"none", "byK", "byId"}

\* lists of one item, or of two items whose k is 0
ShortLists == {<<a>> : a \in Item} \cup {<<a, b>> : a \in PlainItems, b \in PlainItems}

InitIndex ==
    \E u \in BOOLEAN : Construct(<<>>, UniqueOption(u))

NextIndex ==
    \/ \E item \in Item, autoSort \in BOOLEAN : Add(item, autoSort)
    \/ \E list \in ShortLists : AddMany(list)
    \/ \E item \in Item : Patch(item)
    \/ \E list \in ShortLists : PatchMany(list)
    \/ \E i \in Positions : RemoveAt(i)
    \/ \E f \in Positions, t \in Positions : Move(f, t)
    \/ \E fn \in SortArgs : Sort(fn)
    \/ Clear
    \/ RestoreDump
    \/ \E p \in PropNames, v \in AttrVals : FindAllIndexesBy(p, v)

SpecIndex == InitIndex /\ [][NextIndex]_vars

-----------------------------------------------------------------------------
(* The mutators that report failure.                                       *)

InitAtomic ==
    \E u \in BOOLEAN : Construct(<<>>, UniqueOption(u))

NextAtomic ==
    \/ \E item \in PlainItems \cup {NoItem} : Add(item, TRUE)
    \/ \E item \in PlainItems \cup {NoItem} : Remove(item)
    \/ \E i \in Positions : RemoveAt(i)
    \/ \E f \in Positions, t \in Positions : Move(f, t)
    \/ \E item \in PlainItems \cup {NoItem} : Patch(item)
    \/ \E item \in PlainItems \cup {NoItem} : SetActive(item)
    \/ \E item \in PlainItems \cup {NoItem}, t \in TagNames : ApplyTag(item, t)
    \/ \E i \in Positions, t \in TagNames : ApplyTagByIndex(i, t)
    \/ \E l \in IndexLists, t \in TagNames : ApplyTagByIndexes(l, t)
    \/ \E i \in Positions, t \in TagNames : RemoveTagByIndex(i, t)
    \/ \E t \in TagNames : DeleteTag(t)

SpecAtomic == InitAtomic /\ [][NextAtomic]_vars

-----------------------------------------------------------------------------
(* A subscriber under the mutating calls, each with its publish flag left  *)
(* at the default.                                                         *)

\* the items of all identities but the last, and the lists of one or two of them
PairItems == {it \in PlainItems : it.id < NumIds}
PairLists == {<<a>> : a \in PairItems} \cup {<<a, b>> : a \in PairItems, b \in PairItems}

\* lists of positions that begin with the first position
FromFirst == {l \in IndexLists : l[1] = 0}

InitNotify == Construct(<<>>, Options({}, NoVals))

NextNotify ==
    \/ Subscribe
    \/ \E item \in PairItems : Add(item, TRUE)
    \/ \E list \in PairLists : AddMany(list)
    \/ \E item \in PairItems : ToggleAdd(item)
    \/ \E item \in PairItems : Patch(item)
    \/ \E list \in PairLists : PatchMany(list)
    \/ \E item \in PairItems : Remove(item)
    \/ \E i \in Positions : RemoveAt(i)
    \/ \E p \in PropNames, v \in AttrVals : RemoveAllBy(p, v)
    \/ \E f \in Positions, t \in Positions : Move(f, t)
    \/ \E fn \in SortArgs : Sort(fn)
    \/ Clear
    \/ \E item \in PairItems, t \in TagNames : ApplyTag(item, t)
    \/ \E i \in Positions, t \in TagNames : ApplyTagByIndex(i, t)
    \/ \E l \in FromFirst, t \in TagNames : ApplyTagByIndexes(l, t)
    \/ \E item \in PairItems, t \in TagNames : RemoveTag(item, t)
    \/ \E i \in Positions, t \in TagNames : RemoveTagByIndex(i, t)
    \/ \E l \in FromFirst, t \in TagNames : RemoveTagByIndexes(l, t)
    \/ \E item \in PairItems, t \in TagNames : ToggleTag(item, t)
    \/ \E i \in Positions, t \in TagNames : ToggleTagByIndex(i, t)
    \/ \E t \in TagNames : DeleteTag(t)
    \/ \E t \in TagNames, k \in {1, Infinity} : ConfigureTag(t, k)
    \/ RestoreDump

SpecNotify == InitNotify /\ [][NextNotify]_vars

-----------------------------------------------------------------------------
(* A subscriber under the same calls, each with publish = false.           *)

NextQuiet ==
    \/ Subscribe
    \/ \E item \in PairItems :
          CommitBounded("add", add(State, item, TRUE, FALSE))
    \/ \E list \in PairLists :
          CommitBounded("addMany", addMany(State, list, FALSE))
    \/ \E item \in PairItems :
          CommitBounded("toggleAdd", toggleAdd(State, item, FALSE))
    \/ \E item \in PairItems : Commit("patch", patch(State, item, FALSE))
    \/ \E list \in PairLists : Commit("patchMany", patchMany(State, list, FALSE))
    \/ \E item \in PairItems : Commit("remove", remove(State, item, FALSE))
    \/ \E i \in Positions : Commit("removeAt", removeAt(State, i, FALSE))
    \/ \E p \in PropNames, v \in AttrVals :
          Commit("removeAllBy", removeAllBy(State, p, v, FALSE))
    \/ \E f \in Positions, t \in Positions : Commit("move", move(State, f, t, FALSE))
    \/ \E fn \in SortArgs : Commit("sort", sort(State, fn, FALSE))
    \/ Commit("clear", clear(State, FALSE))
    \/ Commit("configure", configure(State, LimitOption(Infinity), FALSE))
    \/ \E item \in PairItems : Commit("setActive", setActive(State, item, FALSE))
    \/ \E n \in Positions : Commit("setActiveIndex", setActiveIndex(State, n, FALSE))
    \/ Commit("unsetActive", unsetActive(State, FALSE))
    \/ \E item \in PairItems, t \in TagNames :
          Commit("applyTag", applyTag(State, item, t, FALSE))
    \/ \E i \in Positions, t \in TagNames :
          Commit("applyTagByIndex", applyTagByIndex(State, i, t, FALSE))
    \/ \E l \in FromFirst, t \in TagNames :
          Commit("applyTagByIndexes", applyTagByIndexes(State, l, t, FALSE))
    \/ \E item \in PairItems, t \in TagNames :
          Commit("removeTag", removeTag(State, item, t, FALSE))
    \/ \E i \in Positions, t \in TagNames :
          Commit("removeTagByIndex", removeTagByIndex(State, i, t, FALSE))
    \/ \E l \in FromFirst, t \in TagNames :
          Commit("removeTagByIndexes", removeTagByIndexes(State, l, t, FALSE))
    \/ \E item \in PairItems, t \in TagNames :
          Commit("toggleTag", toggleTag(State, item, t, FALSE))
    \/ \E i \in Positions, t \in TagNames :
          Commit("toggleTagByIndex", toggleTagByIndex(State, i, t, FALSE))
    \/ \E t \in TagNames : Commit("deleteTag", deleteTag(State, t, FALSE))
    \/ \E t \in TagNames, k \in {1, Infinity} :
          Commit("configureTag", configureTag(State, t, k, FALSE))

SpecQuiet == InitNotify /\ [][NextQuiet]_vars

-----------------------------------------------------------------------------
(* One callback from before subscribe to after unsubscribe.                *)

NextSubscribe ==
    \/ Subscribe
    \/ Unsubscribe
    \/ \E item \in PairItems : Add(item, TRUE)
    \/ \E list \in PairLists : AddMany(list)
    \/ \E item \in PairItems : ToggleAdd(item)
    \/ \E item \in PairItems : Patch(item)
    \/ \E i \in Positions : RemoveAt(i)
    \/ \E v \in IdVals : RemoveAllBy("id", v)
    \/ \E f \in Positions, t \in Positions : Move(f, t)
    \/ Sort("none")
    \/ Clear
    \/ \E item \in PairItems : SetActive(item)
    \/ \E n \in Positions : SetActiveIndex(n)
    \/ UnsetActive
    \/ SetActiveNext
    \/ SetActivePrevious
    \/ SetActiveFirst
    \/ SetActiveLast
    \/ \E i \in Positions, t \in TagNames : ApplyTagByIndex(i, t)
    \/ \E l \in FromFirst, t \in TagNames : ApplyTagByIndexes(l, t)
    \/ \E i \in Positions, t \in TagNames : RemoveTagByIndex(i, t)
    \/ \E i \in Positions, t \in TagNames : ToggleTagByIndex(i, t)
    \/ \E t \in TagNames : DeleteTag(t)
    \/ \E t \in TagNames : ConfigureTag(t, 1)
    \/ RestoreDump

SpecSubscribe == InitNotify /\ [][NextSubscribe]_vars

-----------------------------------------------------------------------------
(* restore and fromJSON on inputs of every kind.                           *)

\* the inputs tried in a state: the kinds that are no dump, and its own dump
Inputs == {Input(k, <<>>) : k \in InputKinds} \cup {Input("dump", dump(State))}

NextRestore ==
    \/ \E item \in PlainItems : Add(item, TRUE)
    \/ \E n \in Positions : SetActiveIndex(n)
    \/ \E i \in Positions, t \in TagNames : ApplyTagByIndex(i, t)
    \/ \E input \in Inputs : Restore(input)
    \/ \E input \in Inputs : FromJSON(input)

SpecRestore == InitNotify /\ [][NextRestore]_vars

-----------------------------------------------------------------------------
(* removeAllBy after adds, patches and lookups.                            *)

NextRemoveAll ==
    \/ \E item \in Item : Add(item, TRUE)
    \/ \E item \in Item : Patch(item)
    \/ \E p \in PropNames, v \in AttrVals : FindAllIndexesBy(p, v)
    \/ \E p \in PropNames, v \in AttrVals : RemoveAllBy(p, v)

SpecRemoveAll == InitIndex /\ [][NextRemoveAll]_vars

-----------------------------------------------------------------------------
(* patch over duplicates, tags and the active pointer.                     *)

\* the items added: those of all identity values but the last, which
\* patch is then tried with and finds nowhere
LowItems == {it \in Item : it.id < NumIds}

NextPatch ==
    \/ \E item \in LowItems : Add(item, TRUE)
    \/ \E item \in Item \cup {NoItem} : Patch(item)
    \/ \E n \in Positions : SetActiveIndex(n)
    \/ \E i \in Positions, t \in TagNames : ApplyTagByIndex(i, t)

SpecPatch == InitIndex /\ [][NextPatch]_vars

-----------------------------------------------------------------------------
(* The tag calls, with unconfigured tags allowed or not and with a tag     *)
(* pre-registered through the tags option or not.                          *)

\* the tags option of the constructor: none, or one tag of cardinality 1
TagMaps == {EmptyMap} \cup {[x \in {t} |-> 1] : t \in TagNames}

InitTagCalls ==
    \E allow \in BOOLEAN, pre \in TagMaps :
        Construct(<<>>, Options({"allowUnconfiguredTags", "tags"},
                                [NoVals EXCEPT !.allowUnconfiguredTags = allow,
                                               !.tags = pre]))

NextTagCalls ==
    \/ \E item \in PlainItems : Add(item, TRUE)
    \/ \E i \in Positions, t \in TagNames : ApplyTagByIndex(i, t)
    \/ \E item \in PlainItems \cup {NoItem}, t \in TagNames : ToggleTag(item, t)
    \/ \E i \in Positions, t \in TagNames : ToggleTagByIndex(i, t)
    \/ \E t \in TagNames, k \in TagLimits : ConfigureTag(t, k)
    \/ \E t \in TagNames : DeleteTag(t)

SpecTagCalls == InitTagCalls /\ [][NextTagCalls]_vars

-----------------------------------------------------------------------------
(* The calls that may find nothing to do.                                  *)

NextNoop ==
    \/ \E item \in PlainItems : Add(item, TRUE)
    \/ \E item \in PlainItems \cup {NoItem} : Remove(item)
    \/ UnsetActive
    \/ \E n \in IndexArgs : SetActiveIndex(n)
    \/ SetActiveNext
    \/ SetActivePrevious
    \/ SetActiveFirst
    \/ SetActiveLast

SpecNoop == InitActive /\ [][NextNoop]_vars

-----------------------------------------------------------------------------
(* Adding with a comparator configured.                                    *)

\* the comparators given as the sortFn option
Comparators == {"byK", "byId"}

InitSorted ==
    \E fn \in Comparators, u \in BOOLEAN :
        Construct(<<>>, Options({"sortFn", "unique"},
                                [NoVals EXCEPT !.sortFn = fn, !.unique = u]))

NextSorted ==
    \/ \E item \in Item : Add(item, TRUE)
    \/ \E list \in ShortLists : AddMany(list)
    \/ \E item \in Item : Patch(item)
    \/ \E f \in Positions, t \in Positions : Move(f, t)
    \/ \E i \in Positions : RemoveAt(i)

SpecSorted == InitSorted /\ [][NextSorted]_vars

-----------------------------------------------------------------------------
(* Sorting, adding and clearing with tags applied and the pointer set,     *)
(* with a comparator configured or not.                                    *)

InitFrame ==
    \/ Construct(<<>>, Options({}, NoVals))
    \/ Construct(<<>>, Options({"sortFn"}, [NoVals EXCEPT !.sortFn = "byId"]))

NextFrame ==
    \/ \E item \in PlainItems : Add(item, TRUE)
    \/ \E list \in PairLists : AddMany(list)
    \/ \E fn \in SortArgs : Sort(fn)
    \/ Clear
    \/ \E n \in Positions : SetActiveIndex(n)
    \/ \E i \in Positions, t \in TagNames : ApplyTagByIndex(i, t)
    \/ \E t \in TagNames : ConfigureTag(t, 2)
    \/ \E p \in PropNames, v \in IdVals : FindAllIndexesBy(p, v)

SpecFrame == InitFrame /\ [][NextFrame]_vars

-----------------------------------------------------------------------------
(* Tag positions under removals, moves, sorts and restores.                *)

\* a dump edited by hand: the last item is gone, the tags still name it
Truncated(d) == [d EXCEPT !.items = SubSeq(@, 1, Len(@) - 1)]

RestoreTruncated ==
    /\ Len(items) > 0
    /\ Commit("restore", restore(State, Truncated(dump(State))))

NextPositions ==
    \/ \E item \in PlainItems : Add(item, TRUE)
    \/ \E i \in Positions : RemoveAt(i)
    \/ \E p \in PropNames, v \in AttrVals : RemoveAllBy(p, v)
    \/ \E f \in Positions, t \in Positions : Move(f, t)
    \/ \E fn \in SortArgs : Sort(fn)
    \/ Clear
    \/ \E item \in PlainItems, t \in TagNames : ApplyTag(item, t)
    \/ \E i \in Positions, t \in TagNames : ApplyTagByIndex(i, t)
    \/ \E l \in FromFirst, t \in TagNames : ApplyTagByIndexes(l, t)
    \/ RestoreDump
    \/ RestoreTruncated

SpecPositions == InitNotify /\ [][NextPositions]_vars

-----------------------------------------------------------------------------
(* A collection constructed with the searchable option.                    *)

InitSearch ==
    \E u \in BOOLEAN :
        Construct(<<>>, Options({"searchable", "unique"}, [NoVals EXCEPT !.unique = u]))

NextSearch ==
    \/ \E item \in LowItems : Add(item, TRUE)
    \/ \E item \in Item : Patch(item)
    \/ \E item \in LowItems : Remove(item)
    \/ \E i \in Positions : RemoveAt(i)
    \/ \E p \in PropNames, v \in AttrVals : RemoveAllBy(p, v)
    \/ Clear
    \/ RestoreDump

SpecSearch == InitSearch /\ [][NextSearch]_vars

-----------------------------------------------------------------------------
(* C1 - SpecTags.  After every call, every tag is borne by at most as many *)
(* positions as the cardinality configured for it (a cardinality that      *)
(* reads null after a restore is the unbounded one it was dumped from).    *)

\* the limit a stored tag cardinality stands for
LimitOf(c) == IF c = Null THEN Infinity ELSE c

C1_TagCardinality ==
    \A t \in DOMAIN tags :
        t \in DOMAIN tagConfigs /\ Len(tags[t]) <= LimitOf(tagConfigs[t])

-----------------------------------------------------------------------------
(* C2 - SpecActive.  The active pointer is unset or a position of the      *)
(* sequence, 0 <= pointer < size; so it is unset when the sequence is      *)
(* empty.                                                                  *)

C2_ActiveInRange ==
    activeIndex = Undefined \/ (0 <= activeIndex /\ activeIndex < Len(items))

-----------------------------------------------------------------------------
(* Identities.                                                             *)

\* no two positions hold the same value of the identity attribute
UniqueIds == \A i, j \in 1..Len(items) : i # j => items[i][idPropName] # items[j][idPropName]

\* the identity of the active item, Undefined when there is none
ActiveId ==
    IF activeIndex # Undefined /\ 0 <= activeIndex /\ activeIndex < Len(items)
    THEN items[activeIndex + 1][idPropName] ELSE Undefined

-----------------------------------------------------------------------------
(* C6 - SpecActive.  With unique identities, an active item stays the      *)
(* active item over every move (a move of the item itself included) and    *)
(* over every removeAt of a position other than its own.                   *)

C6_ActiveFollowsItem ==
    [][(/\ UniqueIds
        /\ ActiveId # Undefined
        /\ \/ last'.op = "move"
           \/ last'.op = "removeAt" /\ \E R \in Positions \ {activeIndex} : RemoveAt(R))
       => ActiveId' = ActiveId]_vars

\* a move has succeeded in a full sequence and the last position is active
C6_Witness ==
    /\ last.op = "move" /\ last.ret
    /\ Len(items) = MaxSize /\ UniqueIds
    /\ activeIndex = MaxSize - 1

-----------------------------------------------------------------------------
(* C5 - SpecTags.  With unique identities, over every move and every       *)
(* removeAt each item that is still in the sequence bears a tag afterwards *)
(* exactly if it bore the tag before (items matched by identity).          *)

\* the identities in the sequence
PresentIds == {items[i][idPropName] : i \in 1..Len(items)}

\* the identities of the items that bear tag t
TaggedIds(t) ==
    IF t \notin DOMAIN tags THEN {}
    ELSE {items[p + 1][idPropName] :
             p \in {q \in Range(tags[t]) : 0 <= q /\ q < Len(items)}}

C5_TagsFollowItems ==
    [][(UniqueIds /\ last'.op \in {"move", "removeAt"})
       => \A t \in TagNames : TaggedIds(t)' = TaggedIds(t) \cap PresentIds']_vars

\* a move has succeeded in a full sequence of which two items bear the tag
C5_Witness ==
    /\ last.op = "move" /\ last.ret
    /\ Len(items) = MaxSize /\ UniqueIds
    /\ \E t \in DOMAIN tags : Len(tags[t]) = 2

(* C3 - SpecUnique.  As stated: whenever the uniqueness flag is on, no two *)
(* positions hold items with the same identity value.                      *)
C3_UniqueWhenFlagOn == unique => UniqueIds

(* C3 - SpecUnique, as the code has it.  A collection constructed with the *)
(* flag on holds no duplicates; every call that ends with the flag on      *)
(* keeps a duplicate-free sequence duplicate-free; and restore with the    *)
(* flag on always yields a duplicate-free sequence.  configure that turns  *)
(* the flag on leaves the duplicates already present where they are.       *)
C3_UniquePreserved ==
    /\ (unique => UniqueIds)
    /\ [][(unique' /\ (UniqueIds \/ last'.op = "restore")) => UniqueIds']_vars

C3_Witness ==
    /\ unique /\ UniqueIds /\ cardinality = Infinity
    /\ last.op = "addMany" /\ last.ret = 1 /\ Len(items) = MaxSize

(* C4 - SpecUnique.  The size never exceeds the configured cardinality,    *)
(* and isFull is true exactly when the size has reached it.                *)
C4_SizeWithinLimit ==
    /\ Len(items) <= cardinality
    /\ isFull(State) <=> Len(items) = cardinality

\* the ascending list of the positions whose item has value v under p
PositionsOf(p, v) ==
    Ascending({i - 1 : i \in {j \in 1..Len(items) : items[j][p] = v}})

(* C7 - SpecIndex.  For every property name and value, findAllIndexesBy    *)
(* returns exactly the ascending list of the positions whose item holds    *)
(* that value under that property.                                         *)
C7_LookupsExact ==
    \A p \in PropNames, v \in AttrVals :
        findAllIndexesBy(State, p, v).ret = PositionsOf(p, v)

(* C8 - SpecIndex.  The index of the identity attribute is current:        *)
(* findIndexBy on it returns the smallest position holding the value, or   *)
(* -1 when no item holds it, and exists is true exactly for the values     *)
(* some item holds.                                                        *)
C8_IdentityIndexCurrent ==
    \A v \in AttrVals :
        /\ findIndexBy(State, idPropName, v).ret =
              (IF PositionsOf(idPropName, v) = <<>> THEN -1
               ELSE PositionsOf(idPropName, v)[1])
        /\ exists(State, v).ret <=> PositionsOf(idPropName, v) # <<>>

C8_Witness ==
    /\ last.op = "removeAt" /\ last.ret
    /\ Len(items) = 2 /\ ~UniqueIds

\* the positions bearing tag t, and the cardinality tag t is held to
Bearing(t) == IF t \in DOMAIN tags THEN Range(tags[t]) ELSE {}
HeldTo(t) == IF t \in DOMAIN tagConfigs THEN tagConfigs[t] ELSE Infinity

(* C9 - SpecTags.  restore(dump()) on the same instance leaves the items   *)
(* and their order, the active position, the tag memberships and the tag   *)
(* configurations as they were, when the identities are unique.            *)
C9_RestoreRoundTrip ==
    [][(last'.op = "restore" /\ UniqueIds)
         => /\ items' = items
            /\ activeIndex' = activeIndex
            /\ \A t \in TagNames : Bearing(t)' = Bearing(t)
            /\ tagConfigs' = tagConfigs]_vars

\* the mutators that report failure by returning false
Mutators ==
    {"add", "remove", "removeAt", "move", "patch", "setActive", "applyTag",
     "applyTagByIndex", "applyTagByIndexes", "removeTagByIndex", "deleteTag"}

(* C10 - SpecAtomic.  A mutator that returns false leaves the items, the   *)
(* lookup results, the tag memberships, the tag configurations and the     *)
(* active pointer as they were, and publishes nothing.                     *)
C10_FailureChangesNothing ==
    [][(last'.op \in Mutators /\ ~last'.threw /\ last'.ret = FALSE)
         => /\ items' = items
            /\ activeIndex' = activeIndex
            /\ \A t \in TagNames : Bearing(t)' = Bearing(t) /\ HeldTo(t)' = HeldTo(t)
            /\ \A p \in PropNames, v \in AttrVals :
                  findAllIndexesBy(State, p, v).ret' = findAllIndexesBy(State, p, v).ret
            /\ last'.pubs = 0]_vars

(* C11 - SpecNotify.  A single mutating call delivers at most one change   *)
(* notification to the subscriber.                                         *)
C11_AtMostOneNotification == Len(delivered) <= 1

(* C12 - SpecNotify.  Every notification a call delivers shows the state   *)
(* the call leaves: the callback sees the final items, active index and    *)
(* tag memberships, never a state in between.                              *)
C12_FinalStateObserved ==
    \A i \in 1..Len(delivered) : delivered[i] = current(State)

(* C13 - SpecQuiet.  A mutating call made with publish = false delivers no *)
(* notification to the subscriber.                                         *)
C13_QuietCallsDeliverNothing == last.op # "subscribe" => delivered = <<>>

\* every variable, the returned value as its printed form
shown == <<fields, subscribed, delivered,
           last.op, last.pubs, last.threw, ToString(last.ret)>>

(* C14 - SpecSubscribe.  subscribe calls the callback exactly once, with   *)
(* the current snapshot; while subscribed, every call that changes what    *)
(* the snapshot shows calls it, the last time with the state the call      *)
(* leaves; after unsubscribe it is never called.                           *)
C14_SubscriptionLifecycle ==
    [][/\ last'.op = "subscribe" => delivered' = <<current(State)>>
       /\ (subscribed = "on" /\ subscribed' = "on" /\ current(State)' # current(State))
            => /\ delivered' # <<>>
               /\ delivered'[Len(delivered')] = current(State)'
       /\ subscribed' = "off" => delivered' = <<>>]_shown

(* C15 - SpecRestore.  restore and fromJSON never throw, whatever they are *)
(* given, and a restore that returns false leaves the collection empty.    *)
C15_RestoreNeverThrows ==
    last.op \in {"restore", "fromJSON"}
        => /\ ~last.threw
           /\ last.ret = FALSE => items = <<>>

\* some item of the sequence has the identity value of the item
Holds(item) == \E i \in 1..Len(items) : items[i][idPropName] = item[idPropName]

(* C16 - SpecUnique.  add fails, changing and publishing nothing, when the *)
(* item is absent, when the size equals the cardinality, or when           *)
(* uniqueness is on and the identity value is held already; in every other *)
(* case it succeeds, the size grows by one and the item is in the          *)
(* sequence.                                                               *)
C16_AddContract ==
    [][\A item \in Item \cup {NoItem} :
          (last'.op = "add" /\ Add(item, TRUE)) =>
             IF \/ item = NoItem
                \/ Len(items) = cardinality
                \/ unique /\ Holds(item)
             THEN /\ last'.ret = FALSE
                  /\ items' = items
                  /\ activeIndex' = activeIndex
                  /\ tags' = tags
                  /\ last'.pubs = 0
             ELSE /\ last'.ret = TRUE
                  /\ Len(items') = Len(items) + 1
                  /\ \E i \in 1..Len(items') : items'[i] = item]_shown

\* the sequence without the items whose value under p is v
Without(its, p, v) == SelectSeq(its, LAMBDA it : it[p] # v)

(* C17 - SpecRemoveAll.  removeAllBy(property, value) removes exactly the   *)
(* items holding the value under the property, keeps the others in their   *)
(* order, and returns the number of items that held it before the call.    *)
C17_RemoveAllByExact ==
    [][\A p \in PropNames, v \in AttrVals :
          (last'.op = "removeAllBy" /\ RemoveAllBy(p, v)) =>
             /\ items' = Without(items, p, v)
             /\ last'.ret = Len(items) - Len(Without(items, p, v))]_shown

\* the sequence with the item of position f taken out and put back at
\* position t (positions counted from 0)
MovedTo(its, f, t) ==
    [j \in 1..Len(its) |->
        IF j = t + 1 THEN its[f + 1]
        ELSE IF f < t /\ f + 1 <= j /\ j < t + 1 THEN its[j + 1]
        ELSE IF t < f /\ t + 1 < j /\ j <= f + 1 THEN its[j - 1]
        ELSE its[j]]

(* C18 - SpecActive.  move(from, to) with both positions in range and      *)
(* different returns true and leaves the sequence with the item of from    *)
(* taken out and put back at to; with a position out of range or with      *)
(* equal positions it returns false, changes no field and publishes        *)
(* nothing.                                                                *)
C18_MoveContract ==
    [][\A f \in Positions, t \in Positions :
          (last'.op = "move" /\ Move(f, t)) =>
             IF f >= 0 /\ f < Len(items) /\ t >= 0 /\ t < Len(items) /\ f # t
             THEN /\ last'.ret = TRUE
                  /\ items' = MovedTo(items, f, t)
                  /\ items'[t + 1] = items[f + 1]
                  /\ Len(items') = Len(items)
             ELSE /\ last'.ret = FALSE
                  /\ last'.pubs = 0
                  /\ UNCHANGED fields]_shown

C18_Witness ==
    /\ last.op = "move"
    /\ last.ret = TRUE
    /\ Len(items) = MaxSize

\* the positions (from 1) whose identity value is the item's
Hit(item) == {i \in 1..Len(items) : items[i][idPropName] = item[idPropName]}

(* C19 - SpecPatch.  patch(item) puts the item at every position whose     *)
(* identity value is the item's and changes nothing else: the size, the    *)
(* identity value of every position, the tags and the active pointer stay. *)
(* It returns true exactly when a position was replaced, and publishes     *)
(* nothing when none was.                                                  *)
C19_PatchFrame ==
    [][\A item \in Item \cup {NoItem} :
          (last'.op = "patch" /\ Patch(item)) =>
             /\ Len(items') = Len(items)
             /\ \A i \in 1..Len(items) :
                   /\ items'[i] = IF i \in Hit(item) THEN item ELSE items[i]
                   /\ items'[i][idPropName] = items[i][idPropName]
             /\ tags' = tags
             /\ tagConfigs' = tagConfigs
             /\ activeIndex' = activeIndex
             /\ last'.ret = (Hit(item) # {})
             /\ Hit(item) = {} => last'.pubs = 0]_shown

C19_Witness ==
    /\ last.op = "patch"
    /\ last.ret = TRUE
    /\ Len(items) = MaxSize
    /\ items[1] = items[2]
    /\ items[3].id # items[1].id
    /\ activeIndex = 0
    /\ \E t \in DOMAIN tags : tags[t] # <<>>

(* C20 - SpecIndex.  sort() without a comparator, on a collection whose     *)
(* comparator was never configured, returns false, leaves the sequence as  *)
(* it is and publishes nothing.                                            *)
C20_SortWithoutComparator ==
    [][(last'.op = "sort" /\ sortFn = Fresh.sortFn /\ Sort("none")) =>
          /\ last'.ret = FALSE
          /\ items' = items
          /\ last'.pubs = 0]_shown

\* position i (from 0) bears tag t in the tag map tgs
BearsTag(tgs, i, t) == t \in DOMAIN tgs /\ i \in Range(tgs[t])
\* some position holding the item's identity value bears tag t
ItemBears(its, tgs, item, t) ==
    \E i \in 1..Len(its) :
        its[i][idPropName] = item[idPropName] /\ BearsTag(tgs, i - 1, t)

(* C21 - SpecTagCalls.  For an item of the collection and for a position   *)
(* in range, toggleTag and toggleTagByIndex return true exactly when the   *)
(* item did not bear the tag before the call and bears it after, and false *)
(* exactly when it bore the tag before and does not after.                 *)
C21_ToggleReportsAction ==
    [][/\ \A item \in PlainItems, t \in TagNames :
            (last'.op = "toggleTag" /\ ~last'.threw /\ Holds(item)
                /\ ToggleTag(item, t)) =>
               /\ (last'.ret = TRUE) <=>
                     (~ItemBears(items, tags, item, t)
                        /\ ItemBears(items', tags', item, t))
               /\ (last'.ret = FALSE) <=>
                     (ItemBears(items, tags, item, t)
                        /\ ~ItemBears(items', tags', item, t))
       /\ \A i \in Positions, t \in TagNames :
            (last'.op = "toggleTagByIndex" /\ ~last'.threw
                /\ i >= 0 /\ i < Len(items) /\ ToggleTagByIndex(i, t)) =>
               /\ (last'.ret = "true") <=>
                     (~BearsTag(tags, i, t) /\ BearsTag(tags', i, t))
               /\ (last'.ret = "false") <=>
                     (BearsTag(tags, i, t) /\ ~BearsTag(tags', i, t))]_shown

(* C22 - SpecUnique.  toggleAdd(item) returns true exactly when no item    *)
(* held the item's identity value before the call and one holds it after,  *)
(* false exactly when one held it before and none holds it after; every    *)
(* call flips whether the identity value is held.                          *)
C22_ToggleAddFlips ==
    [][\A item \in Item :
          (last'.op = "toggleAdd" /\ ToggleAdd(item)) =>
             /\ (last'.ret = TRUE) <=> (~Holds(item) /\ Holds(item)')
             /\ (last'.ret = FALSE) <=> (Holds(item) /\ ~Holds(item)')
             /\ Holds(item)' <=> ~Holds(item)]_shown

\* tag t has a configuration or a membership set
Known(t) == t \in DOMAIN tagConfigs \/ t \in DOMAIN tags

(* C23 - SpecTagCalls.  applyTagByIndex throws only for a tag name that    *)
(* has neither a configuration nor a membership set while unconfigured     *)
(* tags are disallowed, and a call that throws changes no field; with      *)
(* unconfigured tags allowed, applying an unknown tag at a position in     *)
(* range creates it with unbounded cardinality.                            *)
C23_ThrowsOnlyUnconfigured ==
    [][\A i \in Positions, t \in TagNames :
          (last'.op = "applyTagByIndex" /\ ApplyTagByIndex(i, t)) =>
             /\ last'.threw =>
                   /\ ~Known(t)
                   /\ ~allowUnconfiguredTags
                   /\ UNCHANGED fields
             /\ (allowUnconfiguredTags /\ ~Known(t) /\ i >= 0 /\ i < Len(items)) =>
                   /\ t \in DOMAIN tags'
                   /\ t \in DOMAIN tagConfigs'
                   /\ tagConfigs'[t] = Infinity]_shown

(* C24 - SpecTagCalls.  configureTag(name, {cardinality: k}) never throws  *)
(* and returns true, and afterwards the tag has a membership set and the   *)
(* cardinality k.                                                          *)
C24_ConfigureTagTotal ==
    [][\A t \in TagNames, k \in TagLimits :
          (last'.op = "configureTag" /\ ConfigureTag(t, k)) =>
             /\ ~last'.threw
             /\ last'.ret = TRUE
             /\ t \in DOMAIN tags'
             /\ t \in DOMAIN tagConfigs'
             /\ tagConfigs'[t] = k]_shown

\* the positions bearing tag t, and the cardinality configured for it
Members(t) == IF t \in DOMAIN tags THEN Range(tags[t]) ELSE {}
Capacity(t) == IF t \in DOMAIN tagConfigs THEN tagConfigs[t] ELSE Infinity

C29_DeleteTagRemovesBoth ==
    [][\A t \in TagNames :
          (last'.op = "deleteTag" /\ DeleteTag(t)) =>
             IF Known(t)
             THEN /\ last'.ret = TRUE
                  /\ t \notin DOMAIN tags'
                  /\ t \notin DOMAIN tagConfigs'
             ELSE /\ last'.ret = FALSE
                  /\ UNCHANGED fields]_shown

(* C27 - SpecActive.  On a non-empty collection setActiveNext puts an      *)
(* unset pointer at 0, takes a pointer at the last position to the first   *)
(* when cyclic navigation is enabled and leaves it otherwise, and moves    *)
(* any other pointer by +1; setActivePrevious does the same with the first *)
(* position, the last one and -1.  On an empty collection both return      *)
(* undefined without throwing, publish nothing and leave the pointer as it *)
(* was: an unset pointer stays unset.                                      *)
C27_NextPreviousSteps ==
    [][/\ (last'.op = "setActiveNext" /\ SetActiveNext) =>
            IF Len(items) = 0
            THEN /\ last'.ret = NoItem /\ ~last'.threw /\ last'.pubs = 0
                 /\ activeIndex' = activeIndex
            ELSE activeIndex' =
                    IF activeIndex = Undefined THEN 0
                    ELSE IF activeIndex = Len(items) - 1
                    THEN (IF allowNextPrevCycle THEN 0 ELSE activeIndex)
                    ELSE activeIndex + 1
       /\ (last'.op = "setActivePrevious" /\ SetActivePrevious) =>
            IF Len(items) = 0
            THEN /\ last'.ret = NoItem /\ ~last'.threw /\ last'.pubs = 0
                 /\ activeIndex' = activeIndex
            ELSE activeIndex' =
                    IF activeIndex = Undefined THEN 0
                    ELSE IF activeIndex = 0
                    THEN (IF allowNextPrevCycle THEN Len(items) - 1 ELSE activeIndex)
                    ELSE activeIndex - 1]_shown

C27_Witness ==
    /\ last.op = "setActiveNext"
    /\ allowNextPrevCycle
    /\ Len(items) = MaxSize
    /\ activeIndex = 0
    /\ last.pubs = 1

(* C28 - SpecActive.  setActiveIndex(n) on a collection of size s > 0 sets *)
(* the pointer to n mod s, a position in 0..s-1, for every integer n, and  *)
(* returns the item at that position; on an empty collection the pointer   *)
(* is unset afterwards.                                                    *)
C28_IndexModSize ==
    [][\A n \in IndexArgs :
          (last'.op = "setActiveIndex" /\ SetActiveIndex(n)) =>
             IF Len(items) > 0
             THEN /\ activeIndex' = n % Len(items)
                  /\ activeIndex' \in 0..(Len(items) - 1)
                  /\ last'.ret = items[(n % Len(items)) + 1]
             ELSE activeIndex' = Undefined]_shown

\* a step that publishes nothing and leaves what a subscriber would be
\* shown (items, pointer, tags, configuration) as it was; a lookup may
\* still have built a property index
Quiet == last'.pubs = 0 /\ current(State)' = current(State)

(* C26 - SpecNoop.  The calls that find the state as they would leave it   *)
(* publish nothing and change nothing observable, so that a repeat finds   *)
(* the same state again: unsetActive with the pointer unset, remove of an identity  *)
(* no item holds, setActiveNext at the last position and setActivePrevious *)
(* at the first with cyclic navigation off, setActiveFirst, setActiveLast  *)
(* and setActiveIndex(n) with the pointer at the first position, the last  *)
(* position and position n mod size.                                       *)
C26_NoopsAreQuiet ==
    [][/\ (last'.op = "unsetActive" /\ UnsetActive /\ activeIndex = Undefined)
            => Quiet
       /\ \A item \in PlainItems \cup {NoItem} :
            (last'.op = "remove" /\ Remove(item) /\ ~Holds(item)) => Quiet
       /\ (last'.op = "setActiveNext" /\ SetActiveNext /\ ~allowNextPrevCycle
              /\ Len(items) > 0 /\ activeIndex = Len(items) - 1) => Quiet
       /\ (last'.op = "setActivePrevious" /\ SetActivePrevious
              /\ ~allowNextPrevCycle /\ Len(items) > 0 /\ activeIndex = 0) => Quiet
       /\ (last'.op = "setActiveFirst" /\ SetActiveFirst
              /\ Len(items) > 0 /\ activeIndex = 0) => Quiet
       /\ (last'.op = "setActiveLast" /\ SetActiveLast
              /\ Len(items) > 0 /\ activeIndex = Len(items) - 1) => Quiet
       /\ \A n \in IndexArgs :
            (last'.op = "setActiveIndex" /\ SetActiveIndex(n)
              /\ Len(items) > 0 /\ activeIndex = n % Len(items)) => Quiet]_shown

\* the items of its whose key under comparator fn is v, in their order
OfKey(its, fn, v) == SelectSeq(its, LAMBDA it : Key(fn, it) = v)
\* old is the beginning of new
StartsWith(new, old) ==
    Len(old) <= Len(new) /\ SubSeq(new, 1, Len(old)) = old

(* C30 - SpecSorted.  With a comparator configured, after every add that   *)
(* returns true and every addMany that adds an item the sequence is        *)
(* ordered by the comparator, and the items that compare equal are in the  *)
(* order they had before the call, the added ones behind them.             *)
C30_SortedAfterInsertion ==
    [][(\/ last'.op = "add" /\ last'.ret = TRUE
        \/ last'.op = "addMany" /\ last'.ret > 0) =>
          /\ \A i \in 1..Len(items') : \A j \in i..Len(items') :
                Key(sortFn, items'[i]) <= Key(sortFn, items'[j])
          /\ \A v \in AttrVals :
                StartsWith(OfKey(items', sortFn, v), OfKey(items, sortFn, v))]_shown

C30_Witness ==
    /\ last.op = "addMany"
    /\ last.ret = 2
    /\ sortFn = "byK"
    /\ Len(items) = MaxSize
    /\ items[1].k = items[2].k
    /\ items[1].id > items[2].id
    /\ items[3].k > items[2].k

\* where position p goes when the item of position f is moved to position t
MovedPosition(p, f, t) ==
    IF p = f THEN t
    ELSE IF f < p /\ p <= t THEN p - 1
    ELSE IF t <= p /\ p < f THEN p + 1
    ELSE p

(* C31 - SpecTags.  After a removeAt(R) that removes an item every tag is  *)
(* borne by the old positions below R and by the old positions above R     *)
(* lowered by one, so that its set loses at most the removed position;     *)
(* after a move(F, T) that moves an item every tag is borne by the images  *)
(* of its old positions under F -> T, p -> p - 1 for F < p <= T,           *)
(* p -> p + 1 for T <= p < F, p -> p otherwise, as many as before.         *)
C31_TagsRemapped ==
    [][/\ \A r \in Positions :
            (last'.op = "removeAt" /\ last'.ret = TRUE /\ RemoveAt(r)) =>
               /\ DOMAIN tags' = DOMAIN tags
               /\ \A t \in DOMAIN tags :
                     /\ Range(tags'[t]) =
                           {p \in Range(tags[t]) : p < r}
                             \cup {p - 1 : p \in {q \in Range(tags[t]) : q > r}}
                     /\ Cardinality(Range(tags'[t])) =
                           Cardinality(Range(tags[t]) \ {r})
       /\ \A f \in Positions, g \in Positions :
            (last'.op = "move" /\ last'.ret = TRUE /\ Move(f, g)) =>
               /\ DOMAIN tags' = DOMAIN tags
               /\ \A t \in DOMAIN tags :
                     /\ Range(tags'[t]) =
                           {MovedPosition(p, f, g) : p \in Range(tags[t])}
                     /\ Cardinality(Range(tags'[t])) =
                           Cardinality(Range(tags[t]))]_shown

C31_Witness ==
    /\ last.op = "removeAt"
    /\ last.ret = TRUE
    /\ Len(items) = MaxSize - 1
    /\ \E t \in DOMAIN tags : Range(tags[t]) = {0, 1}

(* C32 - SpecActive.  After a removeAt(R) that removes an item the active  *)
(* pointer is unset if it was unset; if it was R it is R mod the new size, *)
(* or unset when the collection became empty; it is unchanged if it was    *)
(* below R and lowered by one if it was above R.                           *)
C32_ActiveAfterRemove ==
    [][\A r \in Positions :
          (last'.op = "removeAt" /\ last'.ret = TRUE /\ RemoveAt(r)) =>
             activeIndex' =
                IF activeIndex = Undefined THEN Undefined
                ELSE IF activeIndex = r
                THEN (IF Len(items') > 0 THEN r % Len(items') ELSE Undefined)
                ELSE IF activeIndex < r THEN activeIndex
                ELSE activeIndex - 1]_shown

C32_Witness ==
    /\ last.op = "removeAt"
    /\ last.ret = TRUE
    /\ Len(items) = MaxSize - 1
    /\ activeIndex = 0
    /\ last.pubs = 1

\* the k numerically smallest members of the set of positions ps
Smallest(ps, k) == {p \in ps : Cardinality({q \in ps : q < p}) < k}

(* C33 - SpecTags.  configureTag(tag, {cardinality: k}) on a tag borne by  *)
(* more than k positions leaves it on exactly the k numerically smallest   *)
(* of them; on a tag borne by at most k positions it leaves the membership *)
(* as it is.                                                               *)
C33_EvictsHighestFirst ==
    [][\A t \in TagNames, k \in TagLimits :
          (last'.op = "configureTag" /\ ~last'.threw /\ t \in DOMAIN tags
              /\ ConfigureTag(t, k)) =>
             IF Cardinality(Range(tags[t])) > k
             THEN Range(tags'[t]) = Smallest(Range(tags[t]), k)
             ELSE tags'[t] = tags[t]]_shown

C33_Witness ==
    /\ last.op = "configureTag"
    /\ last.pubs = 1
    /\ Len(items) = MaxSize
    /\ \E t \in DOMAIN tags : Range(tags[t]) = {0} /\ tagConfigs[t] = 1

\* how many positions of its hold the item it
Count(its, it) == Cardinality({i \in 1..Len(its) : its[i] = it})

(* C34 - SpecFrame.  sort leaves the active pointer and every tag's set of *)
(* positions as the numbers they were, and leaves the size and the number  *)
(* of occurrences of every item unchanged.                                 *)
C34_SortFrame ==
    [][last'.op = "sort" =>
          /\ activeIndex' = activeIndex
          /\ tags' = tags
          /\ Len(items') = Len(items)
          /\ \A it \in Item : Count(items', it) = Count(items, it)]_shown

C34_Witness ==
    /\ last.op = "sort"
    /\ last.ret = TRUE
    /\ sortFn = "noop"
    /\ Len(items) = MaxSize
    /\ \A i \in 1..Len(items) : items[i].id = i
    /\ activeIndex = 2
    /\ \E t \in DOMAIN tags : tags[t] = <<2, 0>>

(* C35 - SpecFrame.  clear() empties the sequence, unsets the active       *)
(* pointer, makes every lookup find nothing and empties the set of every   *)
(* tag, while the tag names, their cardinalities and the configuration     *)
(* scalars stay as they were.                                              *)
C35_ClearFrame ==
    [][last'.op = "clear" =>
          /\ items' = <<>>
          /\ activeIndex' = Undefined
          /\ \A p \in PropNames, v \in AttrVals :
                (findAllIndexesBy(State, p, v).ret)' = <<>>
          /\ DOMAIN tags' = DOMAIN tags
          /\ \A t \in DOMAIN tags : tags'[t] = <<>>
          /\ tagConfigs' = tagConfigs
          /\ UNCHANGED <<cardinality, unique, idPropName, allowNextPrevCycle,
                         allowUnconfiguredTags, sortFn>>]_shown

C35_Witness ==
    /\ last.op = "clear"
    /\ last.pubs = 1
    /\ sortFn = "byId"
    /\ \E t \in DOMAIN tags : tags[t] = <<>> /\ tagConfigs[t] = 2

(* C36 - SpecRemoveAll.  In every reachable state, for every property and  *)
(* value, the loop of removeAllBy ends by itself after at most size        *)
(* rounds, and every round it runs takes one item off the collection.      *)
C36_RemoveAllTerminates ==
    \A p \in PropNames, v \in AttrVals :
        /\ With(removeLoop(State, p, v, 0, <<>>, size(State) + 1), LAMBDA l :
                /\ l.ended
                /\ l.removed <= size(State)
                /\ size(l.s) = size(State) - l.removed)
        /\ With(findIndexBy(State, p, v), LAMBDA f :
                f.ret >= 0 => size(removeAt(f.s, f.ret, TRUE).s) = size(State) - 1)

C36_Witness ==
    /\ last.op = "removeAllBy"
    /\ last.ret = 2
    /\ Len(items) = 1
    /\ "k" \in DOMAIN indexesByProperty

(* C37 - SpecPositions.  In every reachable state every position held by   *)
(* a tag is a position of the sequence, 0 <= p < size, and is held once.   *)
C37_TagPositionsInRange ==
    \A t \in DOMAIN tags :
        /\ \A n \in 1..Len(tags[t]) : tags[t][n] >= 0 /\ tags[t][n] < Len(items)
        /\ \A n, m \in 1..Len(tags[t]) : tags[t][n] = tags[t][m] => n = m

C37_Witness ==
    /\ last.op = "removeAt"
    /\ last.ret = TRUE
    /\ Len(items) = MaxSize - 1
    /\ \E t \in DOMAIN tags : tags[t] = <<1, 0>>

\* add or addMany has just added at least one item
Added ==
    \/ last'.op = "add" /\ last'.ret = TRUE
    \/ last'.op = "addMany" /\ last'.ret > 0

\* the active item and the bearers of every tag, by identity, stay the same
SameBearers ==
    /\ ActiveId' = ActiveId
    /\ \A t \in TagNames : TaggedIds(t)' = TaggedIds(t)

C39_TagReadsAscending ==
    \A t \in TagNames :
        With(Ascending(Range(getIndexesByTag(State, t))), LAMBDA ordered :
            /\ getIndexesByTag(State, t) = ordered
            /\ getByTag(State, t) = MapSeq(ordered, LAMBDA index : at(State, index)))

(* C40 - SpecSearch.  With search configured, in every reachable state the *)
(* identity values registered in the search adapter are those of the items *)
(* of the collection.                                                      *)
C40_SearchMatchesCollection ==
    searchable.enabled => searchable.docIds = PresentIds

=============================================================================
